---------------------------- MODULE Spec2Model ----------------------------
(***************************************************************************)
(* A model of the Rustfuck interpreter (src/src/main.rs): the tokenizer    *)
(* `lex`, the loop resolver `seek_closing` and the executor `parse`, run   *)
(* as `exec` runs them: parse(&lex(&content), capacity, ..).               *)
(*                                                                         *)
(* Rust vectors are indexed from 0; a Vec is modelled as a TLA+ sequence   *)
(* and At(v, i) is v[i].  The tape is a function on 0 .. capacity-1.       *)
(***************************************************************************)
EXTENDS Integers, Sequences, FiniteSets, TLC

\* ------------------------------------------------------------------ bounds
\* Longest source drawn exhaustively over the alphabet.
MaxLen == 3
\* Largest tape capacity drawn (the -c option; any usize is accepted).
MaxCapacity == 2
\* Largest n of the programs "+"^n "[-]".
MaxPlus == 3
\* Stand-in for usize::MAX (2^64 - 1 on the usual targets): the value dp
\* wraps to.  It only has to stay out of reach of capacity + source length.
UsizeMax == 31
\* Cap on the executed tokens of one run (programs such as "+[+]" never end).
MaxSteps == 3 * MaxPlus + 4

\* --------------------------------------------------------------- alphabet
ValidChars == {"+", "-", "<", ">", ".", ",", "[", "]"}
\* Two representatives of the characters lex does not recognise.
OtherChars == {"x", "#"}
Chars == ValidChars \cup OtherChars

\* Bytes stdin may deliver to a ',' (get_byte returns a u8).
InputBytes == {0, 1, 255}

\* Vec indexing, from 0.
At(v, i) == v[i + 1]

\* ------------------------------------------------------------------- lex
\* The match of lex: character -> TokenType.
ClassifyMinusAsPlus(ch) ==
    CASE ch = "+" -> "Plus"
      [] ch = "-" -> "Plus"
      [] ch = "<" -> "Left"
      [] ch = ">" -> "Right"
      [] ch = "." -> "Dot"
      [] ch = "," -> "Comma"
      [] ch = "[" -> "Lpar"
      [] ch = "]" -> "Rpar"
      [] OTHER    -> "Invalid"

Classify(ch) ==
    CASE ch = "+" -> "Plus"
      [] ch = "-" -> "Minus"
      [] ch = "<" -> "Left"
      [] ch = ">" -> "Right"
      [] ch = "." -> "Dot"
      [] ch = "," -> "Comma"
      [] ch = "[" -> "Lpar"
      [] ch = "]" -> "Rpar"
      [] OTHER    -> "Invalid"

TokenNewOneBased(typ, pos) == [typ |-> typ, pos |-> pos + 1]

\* Token::new
TokenNew(typ, pos) == [typ |-> typ, pos |-> pos]

\* What a run ended with: the Err(String) parse returns, or the panic that
\* unwound it.  pos and ch are the values the message is formatted from
\* (-1 and "" where the message carries none).
NoResult == [kind |-> "None", pos |-> -1, ch |-> ""]

InvalidTokenPanicNext(ch, id) == [kind |-> "InvalidToken", pos |-> id + 1, ch |-> ch]

\* panic!("Invalid token {:?} at {:?}", ch, id)
InvalidTokenPanic(ch, id) == [kind |-> "InvalidToken", pos |-> id, ch |-> ch]

\* ---------------------------------------------------------- seek_closing
NestedLoopsErrZeroBased(t) == [kind |-> "NestedLoops", pos |-> t.pos, ch |-> ""]

\* Err(format!("Nested loops are not allowed. Position: {}", t.pos+1))
NestedLoopsErr(t) == [kind |-> "NestedLoops", pos |-> t.pos + 1, ch |-> ""]

\* The for loop of seek_closing, from the i-th token (1-based) on.
RECURSIVE SeekFrom(_, _, _)
SeekFrom(i, start_id, prog) ==
    IF i > Len(prog)
    THEN [ok |-> TRUE, val |-> 0, err |-> NoResult]
    ELSE LET t == prog[i] IN
         IF t.pos <= start_id THEN SeekFrom(i + 1, start_id, prog)
         ELSE IF t.typ = "Lpar"
              THEN [ok |-> FALSE, val |-> 0, err |-> NestedLoopsErr(t)]
         ELSE IF t.typ = "Rpar"
              THEN [ok |-> TRUE, val |-> t.pos, err |-> NoResult]
         ELSE SeekFrom(i + 1, start_id, prog)

seek_closing_to_len(start_id, prog) ==
    LET r == SeekFrom(1, start_id, prog) IN
    IF r.ok /\ r.val = 0 THEN [r EXCEPT !.val = Len(prog)] ELSE r

seek_closing_from_start(start_id, prog) == SeekFrom(1, start_id - 1, prog)

\* seek_closing
seek_closing(start_id, prog) == SeekFrom(1, start_id, prog)

\* Err(format!("Closing ] not found for [ at {}", ip))
ClosingNotFoundErr(ip_) == [kind |-> "ClosingNotFound", pos |-> ip_, ch |-> ""]

\* ----------------------------------------------------------------- state
VARIABLES
    source,            \* exec: content, whitespace removed
    capacity,          \* parse's capacity
    overflow_checks,   \* the build: TRUE = debug profile, FALSE = release
    pc,                \* "lex", "run", "ok" (Ok(())), "err" (Err), "panic"
    id,                \* lex: id
    tokens,            \* lex: tokens
    program,           \* parse: program (what lex returned)
    tape, dp, ip, last_opening_pos,     \* parse's locals
    result,            \* the Err value or the panic
    output,            \* what print! wrote, as scalar values
    seeks,             \* history: the calls of seek_closing, with the cell tested
    trace              \* history: the ip of every token fetched, in order

vars == <<source, capacity, overflow_checks, pc, id, tokens, program,
          tape, dp, ip, last_opening_pos, result, output, seeks, trace>>


\* ---------------------------------------------------------------- inputs
Strings(n) == UNION {[1 .. k -> Chars] : k \in 0 .. n}

\* "+"^n "[-]"
PlusLoop(n) ==
    [i \in 1 .. n + 3 |->
        IF i <= n THEN "+" ELSE IF i = n + 1 THEN "[" ELSE IF i = n + 2 THEN "-" ELSE "]"]

PlusLoops == {PlusLoop(n) : n \in 1 .. MaxPlus}

\* "+"^n "."
PlusDot(n) == [i \in 1 .. n + 1 |-> IF i <= n THEN "+" ELSE "."]

PlusDots == {PlusDot(n) : n \in 0 .. MaxPlus}

\* Longer programs drawn besides the exhaustive short ones.
LongPrograms ==
    { <<"[", "[", "]", "]">>,
      <<"+", "[", "[", "-", "]", "-", "]">>,
      <<"+", "+", "+", ".">>,
      <<"+", "[", "-", "]", "+", "[", "-", "]">>,
      <<"[", "]", "+", "[", "]">>,
      <<"[", "+", "]", "x", "#">> }

Sources == Strings(MaxLen) \cup PlusLoops \cup PlusDots \cup LongPrograms

FreshTapeOneMore(cap) == [i \in 0 .. cap |-> 0]

\* vec![0 as i32; capacity]
FreshTape(cap) == [i \in 0 .. cap - 1 |-> 0]

Init ==
    /\ source \in Sources
    /\ capacity \in 1 .. MaxCapacity
    /\ overflow_checks \in BOOLEAN
    /\ pc = "lex"
    /\ id = 0
    /\ tokens = <<>>
    /\ program = <<>>
    /\ tape = FreshTape(capacity)
    /\ dp = 0
    /\ ip = 0
    /\ last_opening_pos = 0
    /\ result = NoResult
    /\ output = <<>>
    /\ seeks = <<>>
    /\ trace = <<>>

parseVars == <<program, tape, dp, ip, last_opening_pos, output, seeks, trace>>

\* ------------------------------------------------------------ lex, stepped
\* One iteration of `for ch in program.chars()`.
LexChar ==
    /\ pc = "lex"
    /\ id < Len(source)
    /\ LET ch == At(source, id)
           token == TokenNew(Classify(ch), id)
       IN  IF token.typ = "Invalid"
           THEN /\ pc' = "panic"
                /\ result' = InvalidTokenPanic(ch, id)
                /\ UNCHANGED <<tokens, id>>
           ELSE /\ tokens' = Append(tokens, token)
                /\ id' = id + 1
                /\ UNCHANGED <<pc, result>>
    /\ UNCHANGED <<source, capacity, overflow_checks>>
    /\ UNCHANGED parseVars

\* lex returns tokens and exec hands them to parse.
LexReturn ==
    /\ pc = "lex"
    /\ id = Len(source)
    /\ program' = tokens
    /\ pc' = "run"
    /\ UNCHANGED <<source, capacity, overflow_checks, id, tokens, result>>
    /\ UNCHANGED <<tape, dp, ip, last_opening_pos, output, seeks, trace>>

\* --------------------------------------------------------- parse, stepped
\* Panics of the executor.  Rust checks every index; the arithmetic on dp
\* (a usize) is checked only when the build has overflow checks on.
ProgramIndexPanic(i) == [kind |-> "ProgramIndexOutOfBounds", pos |-> i, ch |-> ""]
TapeIndexPanic(d) == [kind |-> "TapeIndexOutOfBounds", pos |-> d, ch |-> ""]
SubOverflowPanic == [kind |-> "SubtractWithOverflow", pos |-> -1, ch |-> ""]
UnwrapNonePanic == [kind |-> "UnwrapOnNone", pos |-> -1, ch |-> ""]

\* tape[dp] is within the Vec.
InTape(d) == d < capacity

\* dp -= 1 without overflow checks: wrapping.
DpLeft(d) == IF d = 0 THEN UsizeMax ELSE d - 1

\* dp += 1.  With overflow checks on, dp = usize::MAX is never reached (it takes
\* a wrapping dp -= 1), so the addition cannot overflow in such a build.
DpRight(d) == IF d = UsizeMax THEN 0 ELSE d + 1

MinusTwo(v) == v - 2
PlusTwo(v) == v + 2

\* tape[dp] += 1 and tape[dp] -= 1 on an i32.  A cell moves by one per token
\* from a value in 0 .. 255, so i32::MIN and i32::MAX are out of reach of a run
\* of MaxSteps tokens.
CellInc(v) == v + 1
CellDec(v) == v - 1

IsScalarUnsigned(v) == v <= 55295 \/ (57344 <= v /\ v <= 1114111)

\* char::from_u32(v as u32) is Some: v as u32 is a scalar value.  A negative
\* i32 converts to a u32 of at least 2^31, beyond 0x10FFFF.
IsScalar(v) == (0 <= v /\ v <= 55295) \/ (57344 <= v /\ v <= 1114111)

SkipTargetAtClosing(next) == next
\* ip = next + 1
SkipTarget(next) == next + 1

RepeatTargetAtOpening(lop) == lop
RepeatTargetPlusTwo(lop) == lop + 2
\* ip = last_opening_pos + 1
RepeatTarget(lop) == lop + 1

LoopRegisterStale(i) == 0
LoopRegisterNext(i) == i + 1
\* last_opening_pos = ip
LoopRegister(i) == i

\* let token = &program[ip] succeeds.
Fetch ==
    /\ pc = "run"
    /\ ip < Len(program)
    /\ Len(trace) < MaxSteps

Tok == At(program, ip)

\* ip += 1; if ip >= program.len() { break; } and then Ok(())
Advance ==
    /\ ip' = ip + 1
    /\ pc' = IF ip + 1 >= Len(program) THEN "ok" ELSE "run"
    /\ result' = result

\* continue, with ip set
JumpTo(target) ==
    /\ ip' = target
    /\ pc' = "run"
    /\ result' = result

Abort(how, r) ==
    /\ pc' = how
    /\ result' = r
    /\ ip' = ip

config == <<source, capacity, overflow_checks, id, tokens, program>>

\* let token = &program[ip] with ip out of the Vec: index out of bounds.
FetchPanic ==
    /\ pc = "run"
    /\ ip >= Len(program)
    /\ Abort("panic", ProgramIndexPanic(ip))
    /\ UNCHANGED <<config, tape, dp, last_opening_pos, output, seeks, trace>>

ExecLeft ==
    /\ Fetch
    /\ Tok.typ = "Left"
    /\ trace' = Append(trace, ip)
    /\ IF dp = 0 /\ overflow_checks
       THEN Abort("panic", SubOverflowPanic) /\ dp' = dp
       ELSE dp' = DpLeft(dp) /\ Advance
    /\ UNCHANGED <<config, tape, last_opening_pos, output, seeks>>

ExecRight ==
    /\ Fetch
    /\ Tok.typ = "Right"
    /\ trace' = Append(trace, ip)
    /\ dp' = DpRight(dp)
    /\ Advance
    /\ UNCHANGED <<config, tape, last_opening_pos, output, seeks>>

ExecPlus ==
    /\ Fetch
    /\ Tok.typ = "Plus"
    /\ trace' = Append(trace, ip)
    /\ IF InTape(dp)
       THEN tape' = [tape EXCEPT ![dp] = CellInc(@)] /\ Advance
       ELSE Abort("panic", TapeIndexPanic(dp)) /\ tape' = tape
    /\ UNCHANGED <<config, dp, last_opening_pos, output, seeks>>

ExecMinus ==
    /\ Fetch
    /\ Tok.typ = "Minus"
    /\ trace' = Append(trace, ip)
    /\ IF InTape(dp)
       THEN tape' = [tape EXCEPT ![dp] = CellDec(@)] /\ Advance
       ELSE Abort("panic", TapeIndexPanic(dp)) /\ tape' = tape
    /\ UNCHANGED <<config, dp, last_opening_pos, output, seeks>>

\* tape[dp] = get_byte() as i32: the byte is read first (unwrap panics when
\* stdin is at its end or fails), then the cell is indexed.
ExecComma ==
    /\ Fetch
    /\ Tok.typ = "Comma"
    /\ trace' = Append(trace, ip)
    /\ \E b \in InputBytes \cup {-1} :
          IF b = -1
          THEN Abort("panic", UnwrapNonePanic) /\ tape' = tape
          ELSE IF InTape(dp)
               THEN tape' = [tape EXCEPT ![dp] = b] /\ Advance
               ELSE Abort("panic", TapeIndexPanic(dp)) /\ tape' = tape
    /\ UNCHANGED <<config, dp, last_opening_pos, output, seeks>>

\* print!("{}", char::from_u32(tape[dp] as u32).unwrap())
ExecDot ==
    /\ Fetch
    /\ Tok.typ = "Dot"
    /\ trace' = Append(trace, ip)
    /\ IF ~InTape(dp)
       THEN Abort("panic", TapeIndexPanic(dp)) /\ output' = output
       ELSE IF ~IsScalar(tape[dp])
            THEN Abort("panic", UnwrapNonePanic) /\ output' = output
            ELSE output' = Append(output, tape[dp]) /\ Advance
    /\ UNCHANGED <<config, tape, dp, last_opening_pos, seeks>>

\* The LoopStart step with the resolver called at every loop entry.
ExecLparEager ==
    /\ Fetch
    /\ Tok.typ = "Lpar"
    /\ trace' = Append(trace, ip)
    /\ last_opening_pos' = LoopRegister(ip)
    /\ IF ~InTape(dp)
       THEN Abort("panic", TapeIndexPanic(dp)) /\ seeks' = seeks
       ELSE LET next == seek_closing(ip, program) IN
            /\ seeks' = Append(seeks, [start_id |-> ip, cell |-> tape[dp], ret |-> next])
            /\ IF ~next.ok THEN Abort("err", next.err)
               ELSE IF next.val = 0 THEN Abort("err", ClosingNotFoundErr(ip))
               ELSE IF tape[dp] = 0 THEN JumpTo(SkipTarget(next.val))
               ELSE Advance
    /\ UNCHANGED <<config, tape, dp, output>>

ExecLpar ==
    /\ Fetch
    /\ Tok.typ = "Lpar"
    /\ trace' = Append(trace, ip)
    /\ last_opening_pos' = LoopRegister(ip)
    /\ IF ~InTape(dp)
       THEN Abort("panic", TapeIndexPanic(dp)) /\ seeks' = seeks
       ELSE IF tape[dp] = 0
            THEN LET next == seek_closing(ip, program) IN
                 /\ seeks' = Append(seeks, [start_id |-> ip, cell |-> tape[dp], ret |-> next])
                 /\ IF ~next.ok THEN Abort("err", next.err)
                    ELSE IF next.val = 0 THEN Abort("err", ClosingNotFoundErr(ip))
                    ELSE JumpTo(SkipTarget(next.val))
            ELSE Advance /\ seeks' = seeks
    /\ UNCHANGED <<config, tape, dp, output>>

ExecRpar ==
    /\ Fetch
    /\ Tok.typ = "Rpar"
    /\ trace' = Append(trace, ip)
    /\ IF ~InTape(dp)
       THEN Abort("panic", TapeIndexPanic(dp))
       ELSE IF tape[dp] # 0
            THEN JumpTo(RepeatTarget(last_opening_pos))
            ELSE Advance
    /\ UNCHANGED <<config, tape, dp, last_opening_pos, output, seeks>>

Next ==
    \/ LexChar
    \/ LexReturn
    \/ FetchPanic
    \/ ExecLeft
    \/ ExecRight
    \/ ExecPlus
    \/ ExecMinus
    \/ ExecComma
    \/ ExecDot
    \/ ExecLpar
    \/ ExecRpar

Spec == Init /\ [][Next]_vars

\* The scheduling of a single-threaded run: a step that can be taken is taken.
FairSpec == Spec /\ WF_vars(Next)

\* ------------------------------------------------ vocabulary of the claims
Last(v) == v[Len(v)]
Min(S) == CHOOSE x \in S : \A y \in S : x <= y
Count(seq, v) == Cardinality({i \in 1 .. Len(seq) : seq[i] = v})
AllValid(src) == \A i \in 1 .. Len(src) : src[i] \in ValidChars
InvalidAt(src) == {i \in 0 .. Len(src) - 1 : At(src, i) \notin ValidChars}

\* The executor is about to fetch and execute the token at ip.
Running == pc = "run" /\ ip < Len(program)
Ended == pc \in {"ok", "err", "panic"}

\* Positions after p that hold a bracket token.
BracketsAfter(p) ==
    {q \in p + 1 .. Len(program) - 1 : At(program, q).typ \in {"Lpar", "Rpar"}}

\* A LoopStart at p with a zero cell, whose scan meets kind k first, at q.
ZeroStartMeets(p, k, q) ==
    /\ At(program, p).typ = "Lpar"
    /\ InTape(dp) /\ tape[dp] = 0
    /\ BracketsAfter(p) # {}
    /\ q = Min(BracketsAfter(p))
    /\ At(program, q).typ = k

\* The LoopStart that bracket-matches the LoopEnd at e, or -1: scanning back
\* from j with `depth` LoopEnds still to be matched.
RECURSIVE MatchBack(_, _, _)
MatchBack(prog, j, depth) ==
    IF j < 0 THEN -1
    ELSE IF At(prog, j).typ = "Rpar" THEN MatchBack(prog, j - 1, depth + 1)
    ELSE IF At(prog, j).typ = "Lpar"
         THEN IF depth = 0 THEN j ELSE MatchBack(prog, j - 1, depth - 1)
    ELSE MatchBack(prog, j - 1, depth)

MatchingLpar(prog, e) == MatchBack(prog, e - 1, 0)

\* The direct simulation of a source of + - < > from its i-th character on.
RECURSIVE Simulate(_, _, _, _)
Simulate(src, i, t, d) ==
    IF i > Len(src) THEN [tape |-> t, dp |-> d]
    ELSE CASE src[i] = "<" -> Simulate(src, i + 1, t, d - 1)
           [] src[i] = ">" -> Simulate(src, i + 1, t, d + 1)
           [] src[i] = "+" ->
                Simulate(src, i + 1, IF d \in DOMAIN t THEN [t EXCEPT ![d] = @ + 1] ELSE t, d)
           [] src[i] = "-" ->
                Simulate(src, i + 1, IF d \in DOMAIN t THEN [t EXCEPT ![d] = @ - 1] ELSE t, d)

OnlyArith(src) == \A i \in 1 .. Len(src) : src[i] \in {"+", "-", "<", ">"}

\* The character each token kind stands for.
KindChar(typ) ==
    CASE typ = "Plus"  -> "+"
      [] typ = "Minus" -> "-"
      [] typ = "Left"  -> "<"
      [] typ = "Right" -> ">"
      [] typ = "Dot"   -> "."
      [] typ = "Comma" -> ","
      [] typ = "Lpar"  -> "["
      [] typ = "Rpar"  -> "]"

\* ------------------------------------------------------------------ claims

\* C1: a run whose last executed token is a LoopStart with a zero cell and a
\* matching LoopEnd at m has continued at m+1 and, m+1 being at or past the
\* token count, has halted successfully; when that LoopStart is the only token
\* executed (as in "[+]") the tape is still all zero.
C1_SkipPastEndHalts ==
    \A m \in 0 .. Len(program) - 1 :
        (Ended /\ trace # <<>> /\ ZeroStartMeets(Last(trace), "Rpar", m))
            => /\ pc = "ok"
               /\ ip = m + 1
               /\ (Len(trace) = 1 => tape = FreshTape(capacity))

C3_PointerOutOfRangeAborts ==
    [][(Running /\ \/ (Tok.typ = "Left" /\ dp = 0)
                   \/ (Tok.typ = "Right" /\ dp = capacity - 1))
          => pc' \in {"err", "panic"}]_vars

\* C4: a LoopEnd executed with a nonzero cell sets ip to the position after
\* the LoopStart that bracket-matches it.
C4_RepeatJumpsToMatch ==
    [][(Running /\ Tok.typ = "Rpar" /\ InTape(dp) /\ tape[dp] # 0
                /\ MatchingLpar(program, ip) >= 0)
          => ip' = MatchingLpar(program, ip) + 1]_vars

\* C5: the run of "+"^n "[-]" ends successfully with cell 0 equal to 0, the
\* '-' (at position n+1) having been executed exactly n times.
C5_PlusLoopDrains ==
    (source \in PlusLoops)
        ~> /\ pc = "ok"
           /\ tape[0] = 0
           /\ Count(trace, Len(source) - 2) = Len(source) - 3

C5_Witness ==
    /\ source = PlusLoop(3)
    /\ pc = "ok"
    /\ tape[0] = 0
    /\ Count(trace, 4) = 3

\* C6: a LoopStart executed with a zero cell and no bracket token after it
\* ends the run with the closing-bracket-not-found error for its position.
C6_UnmatchedStartFails ==
    [][(Running /\ Tok.typ = "Lpar" /\ InTape(dp) /\ tape[dp] = 0
                /\ BracketsAfter(ip) = {})
          => /\ pc' = "err"
             /\ result'.kind = "ClosingNotFound"
             /\ result'.pos = ip]_vars

C6_Witness ==
    /\ source = <<"[", "+">>
    /\ pc = "err"
    /\ result.kind = "ClosingNotFound"
    /\ trace = <<0>>

\* C7: the run of a source made of + - < > only never fails, and when it has
\* halted the tape and dp are those of the direct simulation from an all-zero
\* tape and dp = 0 (so dp is the number of '>' minus the number of '<').
C7_ArithmeticRunsHalt ==
    (OnlyArith(source) /\ pc # "lex")
        => /\ pc \in {"run", "ok"}
           /\ pc = "ok" =>
                LET sim == Simulate(source, 1, FreshTape(capacity), 0)
                IN  tape = sim.tape /\ dp = sim.dp

\* C8: a source with an unrecognised character never gets past lex: no token
\* sequence reaches the executor, no token is executed, and lex ends in the
\* panic that carries the first such character and its zero-based position.
C8_LexFailsFast ==
    InvalidAt(source) # {}
        => /\ pc \in {"lex", "panic"}
           /\ program = <<>>
           /\ trace = <<>>
           /\ output = <<>>
           /\ pc = "panic" =>
                LET k == Min(InvalidAt(source))
                IN  /\ result.kind = "InvalidToken"
                    /\ result.ch = At(source, k)
                    /\ result.pos = k
                    /\ Len(tokens) = k

C8_Witness ==
    /\ pc = "panic"
    /\ result.kind = "InvalidToken"
    /\ result.pos = 1
    /\ Cardinality(InvalidAt(source)) = 2

\* C9: the tokens lex has pushed, and the sequence it returns for a source of
\* recognised characters, have position i at index i, and the returned
\* sequence is as long as the source.
C9_PositionsAreIndices ==
    /\ \A i \in 0 .. Len(tokens) - 1 : At(tokens, i).pos = i
    /\ (AllValid(source) /\ pc # "lex")
           => /\ Len(program) = Len(source)
              /\ \A i \in 0 .. Len(program) - 1 : At(program, i).pos = i

C9_Witness ==
    /\ pc = "run"
    /\ trace = <<>>
    /\ Len(program) >= 3
    /\ At(program, 2).pos = 2

\* C10: for a source of recognised characters, the characters of the kinds of
\* the returned tokens, in order, are the source.
C10_RoundTrip ==
    (AllValid(source) /\ pc # "lex")
        => /\ Len(program) = Len(source)
           /\ \A i \in 1 .. Len(program) : KindChar(program[i].typ) = source[i]

C10_Witness ==
    /\ pc # "lex"
    /\ Len(program) >= 3
    /\ Cardinality({program[i].typ : i \in 1 .. Len(program)}) >= 3

\* ------------------------------------------- vocabulary of the later claims
Max(S) == CHOOSE x \in S : \A y \in S : x >= y

\* The Unicode scalar values: the code points except the surrogates.
ScalarValue(v) == v \in 0 .. 55295 \/ v \in 57344 .. 1114111

\* The places of the trace where a LoopStart was fetched.
LparsIn(tr) == {i \in 1 .. Len(tr) : At(program, tr[i]).typ = "Lpar"}

\* prog is bracket-balanced and none of its loops holds another: scanning
\* from the i-th token with a loop open or not.
RECURSIVE FlatFrom(_, _, _)
FlatFrom(prog, i, open) ==
    IF i > Len(prog) THEN ~open
    ELSE IF prog[i].typ = "Lpar" THEN ~open /\ FlatFrom(prog, i + 1, TRUE)
    ELSE IF prog[i].typ = "Rpar" THEN open /\ FlatFrom(prog, i + 1, FALSE)
    ELSE FlatFrom(prog, i + 1, open)

Flat(prog) == FlatFrom(prog, 1, FALSE)

\* What C20 says of the value r returned for start_id s.
SeekAgrees(s, r) ==
    LET B == BracketsAfter(s) IN
    /\ \A p \in 1 .. Len(program) - 1 :
          (r.ok /\ r.val = p)
              <=> (B # {} /\ Min(B) = p /\ At(program, p).typ = "Rpar")
    /\ r.ok => (r.val = 0 \/ r.val > s)
    /\ (r.ok /\ r.val = 0) => B = {}

\* ------------------------------------------------------------ later claims

\* C11: the run of "+"^n "." ends successfully having written exactly one
\* character, of scalar value n.
C11_PlusDotWrites ==
    (source \in PlusDots)
        ~> /\ pc = "ok"
           /\ output = <<Len(source) - 1>>

C11_Witness ==
    /\ source = <<"+", "+", "+", ".">>
    /\ pc = "ok"
    /\ output = <<3>>

\* C12: an Output token executed on a cell that holds no scalar value ends
\* the run with a failure and writes nothing; once a run has ended no token
\* is executed and nothing is written.
C12_BadScalarAborts ==
    [][/\ (Running /\ Tok.typ = "Dot" /\ InTape(dp) /\ ~ScalarValue(tape[dp]))
            => (pc' \in {"err", "panic"} /\ output' = output)
       /\ Ended => (trace' = trace /\ output' = output)]_vars

C12_Witness ==
    /\ source = <<"-", ".">>
    /\ pc = "panic"
    /\ trace = <<0, 1>>
    /\ output = <<>>

\* C13: a run of the executor that has ended with ip at or past the token
\* count has halted successfully (no token is fetched there).
C13_HaltsWhenPastEnd ==
    (Ended /\ result.kind # "InvalidToken" /\ ip >= Len(program)) => pc = "ok"

\* C14: a LoopEnd executed with a nonzero cell sets ip to the register plus
\* one, the register being the position of the last LoopStart executed (when
\* there is one); executed with a zero cell it sets ip to ip + 1.
C14_RepeatUsesRegister ==
    [][(Running /\ Tok.typ = "Rpar" /\ InTape(dp))
          => IF tape[dp] # 0
             THEN /\ ip' = last_opening_pos + 1
                  /\ LparsIn(trace) # {}
                        => last_opening_pos = trace[Max(LparsIn(trace))]
             ELSE ip' = ip + 1]_vars

C14_Witness ==
    /\ source = PlusLoop(2)
    /\ pc = "run"
    /\ trace # <<>>
    /\ Last(trace) = 4
    /\ tape[0] = 1
    /\ ip = 3

\* C15: every step that executes a LoopStart sets the register to that ip,
\* whatever the cell and whatever the resolver answers; every other step
\* leaves the register as it is.
C15_RegisterFrame ==
    [][IF Running /\ Tok.typ = "Lpar"
       THEN last_opening_pos' = ip
       ELSE last_opening_pos' = last_opening_pos]_vars

C15_Witness ==
    /\ pc = "err"
    /\ result.kind = "NestedLoops"
    /\ last_opening_pos > 0
    /\ last_opening_pos = Last(trace)

\* C16: in a balanced program whose loops are only sequential, a LoopEnd
\* executed with a nonzero cell finds its own matching LoopStart in the
\* register and jumps to the token after it.
C16_FlatLoopsJumpToOwnStart ==
    [][(Flat(program) /\ Running /\ Tok.typ = "Rpar" /\ InTape(dp) /\ tape[dp] # 0)
          => /\ MatchingLpar(program, ip) >= 0
             /\ last_opening_pos = MatchingLpar(program, ip)
             /\ ip' = MatchingLpar(program, ip) + 1]_vars

C16_Witness ==
    /\ source = <<"[", "]", "+", "[", "]">>
    /\ pc = "run"
    /\ trace # <<>>
    /\ Last(trace) = 4
    /\ tape[dp] # 0
    /\ ip = 4

\* C17: a LoopStart executed with a nonzero cell goes on at ip + 1 without
\* failing and without a call of the resolver; the resolver is called only by
\* a LoopStart with a zero cell, for its own position, and only such a call
\* brings a nested-loop or closing-not-found error.
C17_ResolverOnlyOnZeroStart ==
    [][/\ (Running /\ Tok.typ = "Lpar" /\ InTape(dp) /\ tape[dp] # 0)
            => /\ ip' = ip + 1
               /\ pc' \in {"run", "ok"}
               /\ result' = result
               /\ seeks' = seeks
       /\ seeks' # seeks
            => /\ Running /\ Tok.typ = "Lpar" /\ InTape(dp) /\ tape[dp] = 0
               /\ Len(seeks') = Len(seeks) + 1
               /\ Last(seeks').start_id = ip
       /\ (result'.kind \in {"NestedLoops", "ClosingNotFound"} /\ result' # result)
            => seeks' # seeks]_vars

C17_Witness ==
    /\ source = <<"+", "[">>
    /\ pc = "ok"
    /\ trace = <<0, 1>>
    /\ seeks = <<>>

\* C18: the tape always has exactly capacity cells, and a cell changes only
\* in a step that executes '+', '-' or ',' with dp at that cell.
C18_TapeFrame ==
    /\ [](DOMAIN tape = 0 .. capacity - 1)
    /\ [][\A i \in DOMAIN tape :
             tape'[i] # tape[i]
                 => /\ Running
                    /\ Tok.typ \in {"Plus", "Minus", "Comma"}
                    /\ i = dp]_vars

C18_Witness ==
    /\ source = <<">", "+">>
    /\ capacity = 2
    /\ pc = "ok"
    /\ tape[0] = 0
    /\ tape[1] = 1

\* C19: a LoopEnd executed with a nonzero cell before any LoopStart was
\* executed reports nothing and sets ip to 1; the run of "+]" never ends.
C19_UnmatchedEndJumpsToOne ==
    /\ [](source = <<"+", "]">> => ~Ended)
    /\ [][(Running /\ Tok.typ = "Rpar" /\ InTape(dp) /\ tape[dp] # 0
                   /\ LparsIn(trace) = {})
             => /\ ip' = 1
                /\ pc' = "run"
                /\ result' = result]_vars

C19_Witness ==
    /\ source = <<"+", "]">>
    /\ pc = "run"
    /\ Len(trace) >= 4
    /\ ip = 1

\* C20: for every token sequence lex returns and every start_id in it, and
\* for every call the executor made, seek_closing returns Ok(p) with p >= 1
\* exactly when the first bracket after start_id is a LoopEnd at p (then
\* p > start_id), and Ok(0) only when no bracket follows start_id.
C20_SeekClosingResult ==
    /\ \A s \in 0 .. Len(program) - 1 : SeekAgrees(s, seek_closing(s, program))
    /\ \A k \in 1 .. Len(seeks) : SeekAgrees(seeks[k].start_id, seeks[k].ret)

C20_Witness ==
    /\ seeks # <<>>
    /\ Last(seeks).start_id >= 1
    /\ Last(seeks).ret.ok
    /\ Last(seeks).ret.val >= 2

=============================================================================
